---- MODULE Spec2Model ----
(***************************************************************************)
(* Model of the gih ("generic interrupt handler") kernel module:          *)
(* gih.c (workqueue version), gih.h and fio.h.                            *)
(*                                                                         *)
(* One user thread issues the system calls on /dev/gih (open, ioctl,      *)
(* write, close) one after the other, as the python client does.  The     *)
(* interrupt handler gih_intr and the work function gih_do_work run       *)
(* concurrently with it, one kworker per CPU (create_workqueue gives a    *)
(* per-CPU workqueue with max_active = 1).                                *)
(*                                                                         *)
(* Bytes are labelled by provenance: the k-th byte ever handed to         *)
(* gih_write carries the label k, label 0 is a byte that comes from no    *)
(* write (uninitialised stack of file_write_kfifo).                        *)
(***************************************************************************)
EXTENDS Integers, Sequences, FiniteSets, TLC

(* ---------------------------- bounds ----------------------------------- *)
\* capacity of the data kfifo, scaled down from DATA_FIFO_SZ = 1 << 20
DATA_FIFO_SZ == 2
\* capacity of each log kfifo, scaled down from LOG_FIFO_SZ = 8192
LOG_FIFO_SZ == 2
\* number of gih_intr invocations explored
MaxEvents == 2
\* number of bytes handed to gih_write over a run
MaxBytes == 3
\* largest len of one gih_write request
MaxLen == 3
\* width of int and unsigned int, scaled down from 32 bits
INT_BITS == 16
\* number of irqactions the line is allowed to collect
MaxHandlers == 2
\* characters of one rendered log line, scaled down from about 60
LineLen == 2
\* gih_intr invocations explored beyond MaxEvents where the logs are studied
LogExtraEvents == 1

(* ------------------------ program constants ---------------------------- *)
PATH_MAX_LEN == 128
EBUSY == 16
EINVAL == 22
EBADF == 9
EIO == 5
INTR_LOG_MINOR == 0
WQ_N_LOG_MINOR == 1
WQ_X_LOG_MINOR == 2

CPUS == {1, 2}
Minors == {INTR_LOG_MINOR, WQ_N_LOG_MINOR, WQ_X_LOG_MINOR}

(* --------------------------- helpers ----------------------------------- *)
\* the kernel's min() macro
min(a, b) == IF a < b THEN a ELSE b

\* UINT_MAX + 1 and INT_MAX + 1
UintMod == 2 ^ INT_BITS
IntLim == 2 ^ (INT_BITS - 1)

\* (unsigned int)arg and (int)arg for an unsigned long ioctl argument
ToUint(arg) == arg % UintMod
ToInt(arg) == IF ToUint(arg) >= IntLim THEN ToUint(arg) - UintMod ELSE ToUint(arg)

\* a path string of n characters
Fill(n) == [i \in 1..n |-> 1]

\* strlen of a NUL-terminated string held as the sequence of its characters
strlen(s) == Len(s)

\* kfifo_len, kfifo_avail of the data kfifo
kfifo_len(f) == Len(f)
kfifo_avail(f) == DATA_FIFO_SZ - Len(f)

\* kfifo_from_user: copies at most kfifo_avail bytes, in order, at the tail
kfifo_from_user(f, data, length) ==
    f \o SubSeq(data, 1, min(length, kfifo_avail(f)))

\* kfifo_in of one struct log: dropped when the log kfifo is full
kfifo_in(f, e) == IF Len(f) < LOG_FIFO_SZ THEN Append(f, e) ELSE f

\* file_write_kfifo fills data[size] with size kfifo_get calls; a kfifo_get
\* on an empty kfifo stores nothing, so data[put] keeps a stack byte (label 0)
kfifo_get_n(f, size) ==
    SubSeq(f, 1, min(size, Len(f))) \o [i \in 1..(size - min(size, Len(f))) |-> 0]
kfifo_rest(f, size) == SubSeq(f, min(size, Len(f)) + 1, Len(f))

\* what vfs_write may return for size bytes: all of them on a healthy sink;
\* one fewer (short write) or -EIO as well on a failing one
SinkHealthy(size) == {size}
SinkFailing(size) == {size} \cup (IF size > 0 THEN {size - 1} ELSE {}) \cup {-EIO}

\* the results vfs_write may give on a "healthy" or a "failing" sink
SinkResults(sk, size) ==
    IF sk = "healthy" THEN SinkHealthy(size) ELSE SinkFailing(size)

\* the bytes that reach the file when vfs_write returns r
Written(data, r) == IF r > 0 THEN SubSeq(data, 1, r) ELSE <<>>

\* the request buffer of a write of len bytes: fresh labels
Request(nb, len) == [i \in 1..len |-> nb + i]

IsPrefix(s, t) == Len(s) <= Len(t) /\ SubSeq(t, 1, Len(s)) = s

\* a struct log; the time stamp is not modelled
Log(count, sent) == [irq_count |-> count, byte_sent |-> sent]

\* DEFINE_KFIFO(ilog_buf, struct log, LOG_FIFO_SZ) and its like: a zeroed
\* ring of LOG_FIFO_SZ entries with the free-running indices in and out
LogKfifo ==
    [in |-> 0, out |-> 0, data |-> [i \in 0..(LOG_FIFO_SZ - 1) |-> Log(0, 0)]]

\* kfifo_len
LogLen(f) == f.in - f.out

\* the entries a reader finds between out and in, oldest first
Entries(f) ==
    [i \in 1..(f.in - f.out) |-> f.data[(f.out + i - 1) % LOG_FIFO_SZ]]

\* kfifo_in(f, &e, 1), first half: kfifo_unused says whether the entry fits
\* (an unsigned difference: nothing fits only when in - out is the size), and
\* the entry is copied to the slot of in
LogRoom(f) == IF f.in - f.out = LOG_FIFO_SZ THEN 0 ELSE 1

LogCopyIn(f, e) ==
    IF LogRoom(f) = 0 THEN f ELSE [f EXCEPT !.data[f.in % LOG_FIFO_SZ] = e]

\* kfifo_in(f, &e, 1) with nobody else putting: the copy, then in += len
LogIn(f, e) == [LogCopyIn(f, e) EXCEPT !.in = @ + LogRoom(f)]

\* kfifo_out(f, &log, 1)
LogPeek(f) == f.data[f.out % LOG_FIFO_SZ]
LogOut(f) == [f EXCEPT !.out = @ + 1]

\* what a kfifo_in under way remembers: the in it found and the len it puts
NoPut == [in |-> 0, len |-> 0]
Put(f) == [in |-> f.in, len |-> LogRoom(f)]

\* in += len of a kfifo_in whose copy was made at put.in: the sum is stored
\* over whatever another kworker has stored in between
LogCommit(f, put) == {[f EXCEPT !.in = x + put.len] : x \in {f.in, put.in}}

(* ---------------------------- state ------------------------------------ *)
VARIABLES
    \* the user thread
    upc,          \* "none" or the place a system call is blocked at
    op,           \* the last system call entered
    ret,          \* return value of the last system call that returned
    \* gih_dev gih
    dev_open,     \* gih.dev_open is locked
    setup, keep_missed, irq, sleep_msec, write_size, path,
    dest_filp,    \* "NULL" or "open"
    irq_wq,       \* "NULL", "alive" or "destroyed"
    data_buf,     \* content of the data kfifo, head first
    data_wait,    \* atomic_t data_wait
    wrt_lock,     \* "free", or "kworker" while a gih_do_work holds it
    \* interrupt line and work queue
    irq_handlers, \* number of irqactions registered with dev_id &gih
    pending,      \* per CPU: work items queued and not yet started
    flushing,     \* per CPU: items flush_workqueue still waits for
    wpc,          \* per CPU: place of the kworker inside gih_do_work
    n_out_byte,   \* per CPU: local of gih_do_work
    out,          \* per CPU: local of gih_do_work
    panic,        \* the kernel died (oops in interrupt context)
    \* log devices
    irq_count,    \* per minor: log_devices[minor].irq_count
    log_buf,      \* per minor: the log kfifo (ring, in, out)
    log_dev_open, \* per minor: log_devices[minor].dev_open is locked
    f_pos,        \* per minor: filp->f_pos of the open log file
    log_res,      \* the last call on a log device and what it gave
    dev_open_ptr, \* emergency variant: the dev_open pointers, "mutex" or "NULL"
    emerg_fd,     \* emergency variant: open files got past a NULL dev_open
    cnt,          \* per CPU: the irq_count value gih_do_work has loaded
    kin,          \* per CPU: the in and the len of the kfifo_in under way
    \* history
    sink,         \* bytes that reached the destination file since gih_open
    accepted,     \* bytes accepted by gih_write since gih_open
    sink_failed,  \* some vfs_write returned less than asked since gih_open
    km_session,   \* keep_missed was TRUE during the whole session
    irq_set,      \* GIH_IOC_CONFIG_IRQ has set gih.irq since module load
    nbytes,       \* bytes handed to gih_write so far
    nevents       \* gih_intr invocations so far

uservars == <<upc, op, ret>>
cfgvars == <<keep_missed, irq, sleep_msec, write_size, path>>
devvars == <<dev_open, setup, dest_filp, irq_wq>>
datavars == <<data_buf, data_wait, wrt_lock>>
wqvars == <<pending, flushing, wpc, n_out_byte, out>>
logvars == <<irq_count, log_buf>>
rdvars == <<log_dev_open, f_pos, log_res, dev_open_ptr, emerg_fd>>
histvars == <<sink, accepted, sink_failed, km_session, irq_set, nbytes>>
vars == <<uservars, cfgvars, devvars, datavars, irq_handlers, wqvars, panic,
          logvars, rdvars, cnt, kin, histvars, nevents>>

\* no call on a log device yet
NoLogCall == [call |-> "none", minor |-> 0, len |-> 0, ret |-> 0,
              text |-> <<>>, nul |-> 0]

\* no open file was obtained past a destroyed dev_open mutex
NoEmergFd == [gih |-> FALSE, log |-> [m \in Minors |-> FALSE]]

\* static gih_dev gih = { 0 }; static log_dev log_devices[3] = { 0 };
\* gih_init initialises the kfifos and the mutexes
Init ==
    /\ upc = "none" /\ op = "none" /\ ret = 0
    /\ dev_open = FALSE /\ setup = FALSE /\ keep_missed = FALSE
    /\ irq = 0 /\ sleep_msec = 0 /\ write_size = 0 /\ path = <<>>
    /\ dest_filp = "NULL" /\ irq_wq = "NULL"
    /\ data_buf = <<>> /\ data_wait = 0 /\ wrt_lock = "free"
    /\ irq_handlers = 0
    /\ pending = [c \in CPUS |-> 0] /\ flushing = [c \in CPUS |-> 0]
    /\ wpc = [c \in CPUS |-> "idle"]
    /\ n_out_byte = [c \in CPUS |-> 0] /\ out = [c \in CPUS |-> 0]
    /\ panic = FALSE
    /\ irq_count = [m \in Minors |-> 0] /\ log_buf = [m \in Minors |-> LogKfifo]
    /\ log_dev_open = [m \in Minors |-> FALSE] /\ f_pos = [m \in Minors |-> 0]
    /\ log_res = NoLogCall
    /\ dev_open_ptr = "mutex" /\ emerg_fd = NoEmergFd
    /\ cnt = [c \in CPUS |-> 0]
    /\ kin = [c \in CPUS |-> NoPut]
    /\ sink = <<>> /\ accepted = <<>> /\ sink_failed = FALSE
    /\ km_session = FALSE /\ irq_set = FALSE /\ nbytes = 0 /\ nevents = 0

\* the user thread may enter a system call
UserReady == upc = "none" /\ ~panic
\* the user thread holds the open file of /dev/gih
HasFd == dev_open

\* mutex_lock(&gih.wrt_lock) returns only when nobody holds the mutex
\* (WrtLockFree_NoMutex: a lock that never makes anybody wait)
WrtLockFree_NoMutex == TRUE
WrtLockFree == wrt_lock = "free"

\* no work item is queued or running
WqIdle == \A c \in CPUS : pending[c] = 0 /\ wpc[c] = "idle"

(* --------------------------- gih_open ---------------------------------- *)
gih_open ==
    /\ UNCHANGED <<rdvars, cnt, kin>>
    /\ UserReady
    /\ op' = "open"
    /\ IF dev_open
       THEN /\ ret' = -EBUSY
            /\ UNCHANGED <<dev_open, irq_wq, data_buf, data_wait, sink,
                           accepted, sink_failed, km_session>>
       ELSE /\ dev_open' = TRUE
            /\ data_wait' = 0
            /\ irq_wq' = "alive"
            /\ data_buf' = <<>>
            /\ ret' = 0
            /\ sink' = <<>> /\ accepted' = <<>> /\ sink_failed' = FALSE
            /\ km_session' = keep_missed
    /\ UNCHANGED <<upc, cfgvars, setup, dest_filp, wrt_lock, irq_handlers,
                   wqvars, panic, logvars, irq_set, nbytes, nevents>>

(* ------------------- gih_ioctl: configuration -------------------------- *)
\* arguments tried for each command (unsigned long arg)
IrqArgs == {UintMod - 1, 0, 1}
DelayArgs == {UintMod - 1, 0, 1}
WrtSzArgs == {UintMod - 1, 0, 1, 2}
PathArgs == {<<1>>, Fill(PATH_MAX_LEN - 1), Fill(PATH_MAX_LEN)}
MissArgs == {0, 2}

IoctlFrame == UNCHANGED <<upc, devvars, datavars, irq_handlers, wqvars, panic,
                          logvars, rdvars, cnt, kin, sink, accepted,
                          sink_failed,
                          nbytes, nevents>>

gih_ioctl_irq(arg) ==
    /\ UserReady /\ HasFd
    /\ op' = "irq"
    /\ IF setup
       THEN ret' = -EBUSY /\ UNCHANGED <<irq, irq_set>>
       ELSE IF ToInt(arg) < 0
            THEN ret' = -EINVAL /\ UNCHANGED <<irq, irq_set>>
            ELSE ret' = 0 /\ irq' = ToInt(arg) /\ irq_set' = TRUE
    /\ UNCHANGED <<keep_missed, sleep_msec, write_size, path, km_session>>
    /\ IoctlFrame

gih_ioctl_delay_t(arg) ==
    /\ UserReady /\ HasFd
    /\ op' = "delay"
    /\ IF setup
       THEN ret' = -EBUSY /\ sleep_msec' = sleep_msec
       ELSE IF ToInt(arg) < 0
            THEN ret' = -EINVAL /\ sleep_msec' = sleep_msec
            ELSE ret' = 0 /\ sleep_msec' = ToUint(arg)
    /\ UNCHANGED <<keep_missed, irq, write_size, path, km_session, irq_set>>
    /\ IoctlFrame

\* (gih_ioctl_wrt_sz_NoBusy: the same without the gih.setup test)
gih_ioctl_wrt_sz_NoBusy(arg) ==
    /\ UserReady /\ HasFd
    /\ op' = "wrt_sz"
    /\ IF ToInt(arg) <= 0
       THEN ret' = -EINVAL /\ write_size' = write_size
       ELSE ret' = 0 /\ write_size' = arg
    /\ UNCHANGED <<keep_missed, irq, sleep_msec, path, km_session, irq_set>>
    /\ IoctlFrame

gih_ioctl_wrt_sz(arg) ==
    /\ UserReady /\ HasFd
    /\ op' = "wrt_sz"
    /\ IF setup
       THEN ret' = -EBUSY /\ write_size' = write_size
       ELSE IF ToInt(arg) <= 0
            THEN ret' = -EINVAL /\ write_size' = write_size
            ELSE ret' = 0 /\ write_size' = arg
    /\ UNCHANGED <<keep_missed, irq, sleep_msec, path, km_session, irq_set>>
    /\ IoctlFrame

\* the range check of GIH_IOC_CONFIG_PATH
\* (PathTooLong_OffByOne: the same with a string of PATH_MAX_LEN let through)
PathTooLong_OffByOne(arg) == strlen(arg) > PATH_MAX_LEN
PathTooLong(arg) == strlen(arg) > PATH_MAX_LEN - 1

gih_ioctl_path(arg) ==
    /\ UserReady /\ HasFd
    /\ op' = "path"
    /\ IF setup
       THEN ret' = -EBUSY /\ path' = path
       ELSE IF PathTooLong(arg)
            THEN ret' = -EINVAL /\ path' = path
            ELSE ret' = 0 /\ path' = SubSeq(arg, 1, strlen(arg))
    /\ UNCHANGED <<keep_missed, irq, sleep_msec, write_size, km_session, irq_set>>
    /\ IoctlFrame

gih_ioctl_miss(arg) ==
    /\ UserReady /\ HasFd
    /\ op' = "miss"
    /\ IF setup
       THEN ret' = -EBUSY /\ keep_missed' = keep_missed
       ELSE ret' = 0 /\ keep_missed' = (ToInt(arg) # 0)
    /\ km_session' = (km_session /\ keep_missed')
    /\ UNCHANGED <<irq, sleep_msec, write_size, path, irq_set>>
    /\ IoctlFrame

(* ------------------- gih_ioctl: start and stop ------------------------- *)
\* request_irq(gih.irq, gih_intr, IRQF_SHARED, IRQ_NAME, &gih): 0 or an error
RequestIrqResults == {0, -EINVAL}

\* file_open(gih.path, O_WRONLY, S_IRWXUGO): filp_open of the empty path
\* fails, any other path may or may not name an existing file
FileOpenResults(p) == IF strlen(p) = 0 THEN {"NULL"} ELSE {"open", "NULL"}

\* what flush_workqueue waits for: the items queued or running at the call
FlushSnapshot == [c \in CPUS |-> pending[c] + (IF wpc[c] = "idle" THEN 0 ELSE 1)]
Flushed == \A c \in CPUS : flushing[c] = 0

\* GIH_IOC_CONFIG_START up to the return of request_irq
gih_ioctl_start ==
    /\ UNCHANGED <<rdvars, cnt, kin>>
    /\ UserReady /\ HasFd
    /\ op' = "start"
    /\ IF setup
       THEN ret' = -EBUSY /\ UNCHANGED <<upc, irq_handlers>>
       ELSE \E error \in RequestIrqResults :
              /\ error = 0 => irq_handlers < MaxHandlers
              /\ IF error < 0
                 THEN ret' = error /\ UNCHANGED <<upc, irq_handlers>>
                 ELSE /\ irq_handlers' = irq_handlers + 1
                      /\ upc' = "start_open"
                      /\ ret' = ret
    /\ UNCHANGED <<cfgvars, devvars, datavars, wqvars, panic, logvars,
                   histvars, nevents>>

\* GIH_IOC_CONFIG_START from file_open on
gih_ioctl_start_open ==
    /\ UNCHANGED <<rdvars, cnt, kin>>
    /\ op' = op
    /\ upc = "start_open" /\ ~panic
    /\ \E filp \in FileOpenResults(path) :
         /\ dest_filp' = filp
         /\ IF filp = "NULL"
            THEN ret' = -EBADF /\ setup' = setup
            ELSE ret' = 0 /\ setup' = TRUE
    /\ upc' = "none"
    /\ UNCHANGED <<cfgvars, dev_open, irq_wq, datavars, irq_handlers, wqvars,
                   panic, logvars, histvars, nevents>>

\* (gih_ioctl_stop_NoBusy: the same without the gih.setup test)
gih_ioctl_stop_NoBusy ==
    /\ UNCHANGED <<rdvars, cnt, kin>>
    /\ UserReady /\ HasFd
    /\ op' = "stop"
    /\ irq_handlers' = IF irq_handlers > 0 THEN irq_handlers - 1 ELSE 0
    /\ flushing' = FlushSnapshot
    /\ upc' = "stop_flush"
    /\ ret' = ret
    /\ UNCHANGED <<cfgvars, devvars, datavars, pending, wpc, n_out_byte, out,
                   panic, logvars, histvars, nevents>>

\* GIH_IOC_CONFIG_STOP up to the call of flush_workqueue
gih_ioctl_stop ==
    /\ UNCHANGED <<rdvars, cnt, kin>>
    /\ UserReady /\ HasFd
    /\ op' = "stop"
    /\ IF ~setup
       THEN ret' = -EBUSY /\ UNCHANGED <<upc, irq_handlers, flushing>>
       ELSE /\ irq_handlers' = irq_handlers - 1
            /\ flushing' = FlushSnapshot
            /\ upc' = "stop_flush"
            /\ ret' = ret
    /\ UNCHANGED <<cfgvars, devvars, datavars, pending, wpc, n_out_byte, out,
                   panic, logvars, histvars, nevents>>

\* (gih_ioctl_stop_flushed_Discard: the same with the buffer thrown away)
gih_ioctl_stop_flushed_Discard ==
    /\ UNCHANGED <<rdvars, cnt, kin>>
    /\ op' = op
    /\ upc = "stop_flush" /\ ~panic
    /\ Flushed
    /\ dest_filp' = "NULL"
    /\ setup' = FALSE
    /\ ret' = 0
    /\ upc' = "none"
    /\ data_buf' = <<>> /\ data_wait' = 0
    /\ UNCHANGED <<cfgvars, dev_open, irq_wq, wrt_lock, irq_handlers, wqvars,
                   panic, logvars, histvars, nevents>>

\* GIH_IOC_CONFIG_STOP from the return of flush_workqueue on
gih_ioctl_stop_flushed ==
    /\ UNCHANGED <<rdvars, cnt, kin>>
    /\ op' = op
    /\ upc = "stop_flush" /\ ~panic
    /\ Flushed
    /\ dest_filp' = "NULL"
    /\ setup' = FALSE
    /\ ret' = 0
    /\ upc' = "none"
    /\ UNCHANGED <<cfgvars, dev_open, irq_wq, datavars, irq_handlers, wqvars,
                   panic, logvars, histvars, nevents>>

(* --------------------------- gih_write --------------------------------- *)
\* gih_write up to mutex_lock(&gih.wrt_lock)
gih_write ==
    /\ UNCHANGED <<rdvars, cnt, kin>>
    /\ UserReady /\ HasFd
    /\ op' = "write"
    /\ upc' = "write"
    /\ UNCHANGED <<ret, cfgvars, devvars, datavars, irq_handlers, wqvars,
                   panic, logvars, histvars, nevents>>

\* the buffer and the counter after the keep_missed reset of gih_write
\* (WriteBase_NoReset: the same without the kfifo_reset)
WriteBase_NoReset(km, buf) == buf
WriteBase(km, buf) == IF km THEN buf ELSE <<>>
\* (WriteBaseWait_NoReset: the same without the atomic_set)
WriteBaseWait_NoReset(km, wait) == wait
WriteBaseWait(km, wait) == IF km THEN wait ELSE 0

\* gih_write from the acquisition of wrt_lock to the return
gih_write_locked(len) ==
    /\ UNCHANGED <<rdvars, cnt, kin>>
    /\ op' = op
    /\ upc = "write" /\ ~panic
    /\ WrtLockFree
    /\ nbytes + len <= MaxBytes
    /\ LET buffer == Request(nbytes, len)
           base   == WriteBase(keep_missed, data_buf)
           avail  == kfifo_avail(base)
           length == min(len, avail)
           newbuf == kfifo_from_user(base, buffer, length)
           copied == Len(newbuf) - Len(base)
       IN  /\ data_buf' = newbuf
           /\ data_wait' = WriteBaseWait(keep_missed, data_wait) + copied
           /\ ret' = copied
           /\ accepted' = accepted \o SubSeq(buffer, 1, copied)
    /\ nbytes' = nbytes + len
    /\ upc' = "none"
    /\ UNCHANGED <<cfgvars, devvars, wrt_lock, irq_handlers, wqvars, panic,
                   logvars, sink, sink_failed, km_session, irq_set, nevents>>

(* --------------------------- gih_close --------------------------------- *)
\* gih_close up to the first call that can block
gih_close ==
    /\ UNCHANGED <<rdvars, cnt, kin>>
    /\ UserReady /\ HasFd
    /\ op' = "close"
    /\ IF ~setup
       THEN /\ upc' = "close_idle"
            /\ UNCHANGED <<irq_handlers, flushing>>
       ELSE /\ irq_handlers' = irq_handlers - 1
            /\ flushing' = FlushSnapshot
            /\ upc' = "close_flush"
    /\ UNCHANGED <<ret, cfgvars, devvars, datavars, pending, wpc, n_out_byte,
                   out, panic, logvars, histvars, nevents>>

\* device not set up: destroy_workqueue, unlock dev_open, return 0
gih_close_idle ==
    /\ UNCHANGED <<rdvars, cnt, kin>>
    /\ op' = op
    /\ upc = "close_idle" /\ ~panic
    /\ WqIdle
    /\ irq_wq' = "destroyed"
    /\ dev_open' = FALSE
    /\ ret' = 0
    /\ upc' = "none"
    /\ UNCHANGED <<cfgvars, setup, dest_filp, datavars, irq_handlers, wqvars,
                   panic, logvars, histvars, nevents>>

\* (gih_close_flushed_NoJoin: the same without the flush_workqueue)
gih_close_flushed_NoJoin ==
    /\ UNCHANGED <<rdvars, cnt, kin>>
    /\ op' = op
    /\ upc = "close_flush" /\ ~panic
    /\ setup' = FALSE
    /\ upc' = "close_destroy"
    /\ UNCHANGED <<ret, cfgvars, dev_open, dest_filp, irq_wq, datavars,
                   irq_handlers, wqvars, panic, logvars, histvars, nevents>>

\* flush_workqueue returned: gih.setup = FALSE
gih_close_flushed ==
    /\ UNCHANGED <<rdvars, cnt, kin>>
    /\ op' = op
    /\ upc = "close_flush" /\ ~panic
    /\ Flushed
    /\ setup' = FALSE
    /\ upc' = "close_destroy"
    /\ UNCHANGED <<ret, cfgvars, dev_open, dest_filp, irq_wq, datavars,
                   irq_handlers, wqvars, panic, logvars, histvars, nevents>>

\* destroy_workqueue drains the queue and frees it
gih_close_destroy ==
    /\ UNCHANGED <<rdvars, cnt, kin>>
    /\ op' = op
    /\ upc = "close_destroy" /\ ~panic
    /\ WqIdle
    /\ irq_wq' = "destroyed"
    /\ upc' = "close_lock"
    /\ UNCHANGED <<ret, cfgvars, dev_open, setup, dest_filp, datavars,
                   irq_handlers, wqvars, panic, logvars, histvars, nevents>>

\* the value gih_close returns for a drain of dwait bytes that wrote r
\* (CloseCopied_Inverted: the same with the copied != dwait test inverted)
CloseCopied_Inverted(r, dwait) == IF r < 0 THEN r ELSE IF r = dwait THEN 0 ELSE r
CloseCopied(r, dwait) == IF r < 0 THEN r ELSE IF r # dwait THEN 0 ELSE r

\* (gih_close_drain_KeepGate: a drain that returns the error of the write
\* at once, before file_close and the unlock of dev_open)
gih_close_drain_KeepGate(sk) ==
    /\ UNCHANGED <<rdvars, cnt, kin>>
    /\ op' = op
    /\ upc = "close_lock" /\ ~panic
    /\ WrtLockFree
    /\ IF ~keep_missed
       THEN /\ data_buf' = <<>>
            /\ data_wait' = 0
            /\ ret' = 0
            /\ dest_filp' = "NULL" /\ dev_open' = FALSE /\ upc' = "none"
            /\ UNCHANGED <<sink, sink_failed, panic>>
       ELSE IF data_wait < 0
       THEN /\ panic' = TRUE
            /\ UNCHANGED <<data_buf, data_wait, ret, dest_filp, dev_open, upc,
                           sink, sink_failed>>
       ELSE LET dwait == data_wait
                data  == kfifo_get_n(data_buf, dwait)
            IN  \E r \in SinkResults(sk, dwait) :
                  /\ data_buf' = kfifo_rest(data_buf, dwait)
                  /\ data_wait' = data_wait
                  /\ sink' = sink \o Written(data, r)
                  /\ sink_failed' = (sink_failed \/ r # dwait)
                  /\ ret' = CloseCopied(r, dwait)
                  /\ dest_filp' = (IF r < 0 THEN dest_filp ELSE "NULL")
                  /\ dev_open' = (r < 0)
                  /\ upc' = "none"
                  /\ panic' = panic
    /\ UNCHANGED <<cfgvars, setup, irq_wq, wrt_lock, irq_handlers, wqvars,
                   logvars, accepted, km_session, irq_set, nbytes, nevents>>

\* from mutex_lock(&gih.wrt_lock) to the return: the drain on a sink
\* that is "healthy" or "failing".  A negative
\* data_wait read into the size_t dwait asks file_write_kfifo for a stack
\* array of about SIZE_MAX bytes: the kernel dies
gih_close_drain(sk) ==
    /\ UNCHANGED <<rdvars, cnt, kin>>
    /\ op' = op
    /\ upc = "close_lock" /\ ~panic
    /\ WrtLockFree
    /\ IF ~keep_missed
       THEN /\ data_buf' = <<>>
            /\ data_wait' = 0
            /\ ret' = 0
            /\ dest_filp' = "NULL" /\ dev_open' = FALSE /\ upc' = "none"
            /\ UNCHANGED <<sink, sink_failed, panic>>
       ELSE IF data_wait < 0
       THEN /\ panic' = TRUE
            /\ UNCHANGED <<data_buf, data_wait, ret, dest_filp, dev_open, upc,
                           sink, sink_failed>>
       ELSE LET dwait == data_wait
                data  == kfifo_get_n(data_buf, dwait)
            IN  \E r \in SinkResults(sk, dwait) :
                  /\ data_buf' = kfifo_rest(data_buf, dwait)
                  /\ data_wait' = data_wait
                  /\ sink' = sink \o Written(data, r)
                  /\ sink_failed' = (sink_failed \/ r # dwait)
                  /\ ret' = CloseCopied(r, dwait)
                  /\ dest_filp' = "NULL" /\ dev_open' = FALSE /\ upc' = "none"
                  /\ panic' = panic
    /\ UNCHANGED <<cfgvars, setup, irq_wq, wrt_lock, irq_handlers, wqvars,
                   logvars, accepted, km_session, irq_set, nbytes, nevents>>

(* ---------------------------- gih_intr --------------------------------- *)
\* kmalloc(sizeof(struct work_struct), GFP_ATOMIC) returns memory or NULL
KmallocOk == {"work"}
KmallocAny == {"work", "NULL"}

\* queue_work on a destroyed workqueue is a use after free: the item may
\* still be run, or the kernel dies
QueueResults(wq) == IF wq = "alive" THEN {"queued"} ELSE {"queued", "dead"}

\* one invocation of the handler on CPU c; with h irqactions registered
\* every interrupt of the line gives h invocations.  INIT_WORK on a NULL
\* work item is an oops in interrupt context
gih_intr(c, Kmalloc) ==
    /\ UNCHANGED <<rdvars, cnt, kin>>
    /\ ~panic
    /\ irq_handlers > 0
    /\ nevents < MaxEvents
    /\ nevents' = nevents + 1
    /\ \E work \in Kmalloc, q \in QueueResults(irq_wq) :
         IF work = "NULL" \/ q = "dead"
         THEN /\ panic' = TRUE
              /\ UNCHANGED <<pending, irq_count, log_buf>>
         ELSE /\ pending' = [pending EXCEPT ![c] = @ + 1]
              /\ irq_count' = [irq_count EXCEPT ![INTR_LOG_MINOR] = @ + 1]
              /\ log_buf' = [log_buf EXCEPT ![INTR_LOG_MINOR] =
                               LogIn(@, Log(irq_count[INTR_LOG_MINOR], -1))]
              /\ panic' = panic
    /\ UNCHANGED <<uservars, cfgvars, devvars, datavars, irq_handlers,
                   flushing, wpc, n_out_byte, out, histvars>>

(* -------------------------- usleep_range ------------------------------- *)
\* #define TIME_DELTA 100, the time correction in microseconds
TIME_DELTA == 100

\* the bounds gih_do_work hands to usleep_range: unsigned int arithmetic on
\* gih.sleep_msec
UsleepMin(msec) == ToUint(msec * 1000 - 2 * 2 * TIME_DELTA)
UsleepMax(msec) == ToUint(msec * 1000 - TIME_DELTA)

(* -------------------------- gih_do_work -------------------------------- *)
\* (gih_do_work_lock_Requeue: the item stays queued when it is started)
gih_do_work_lock_Requeue(c) ==
    /\ UNCHANGED <<rdvars, cnt, kin>>
    /\ ~panic
    /\ wpc[c] = "idle" /\ pending[c] > 0
    /\ WrtLockFree
    /\ pending' = pending
    /\ wrt_lock' = "kworker"
    /\ n_out_byte' = [n_out_byte EXCEPT ![c] = min(kfifo_len(data_buf), write_size)]
    /\ wpc' = [wpc EXCEPT ![c] = "sleep"]
    /\ UNCHANGED <<uservars, cfgvars, devvars, data_buf, data_wait,
                   irq_handlers, flushing, out, panic, logvars,
                   histvars, nevents>>

\* the kworker of CPU c takes the next item of its pool and gets wrt_lock:
\* n_out_byte is computed, then the worker sleeps holding the lock
gih_do_work_lock(c) ==
    /\ UNCHANGED <<rdvars, cnt, kin>>
    /\ ~panic
    /\ wpc[c] = "idle" /\ pending[c] > 0
    /\ WrtLockFree
    /\ pending' = [pending EXCEPT ![c] = @ - 1]
    /\ wrt_lock' = "kworker"
    /\ n_out_byte' = [n_out_byte EXCEPT ![c] = min(kfifo_len(data_buf), write_size)]
    /\ wpc' = [wpc EXCEPT ![c] = "sleep"]
    /\ UNCHANGED <<uservars, cfgvars, devvars, data_buf, data_wait,
                   irq_handlers, flushing, out, panic, logvars,
                   histvars, nevents>>

\* after usleep_range: file_write_kfifo, atomic_sub, file_sync, mutex_unlock.
\* vfs_write through a NULL dest_filp is an oops: the kworker dies with the
\* bytes taken out of the kfifo and wrt_lock held
gih_do_work_write(c, sk) ==
    /\ UNCHANGED <<rdvars, cnt, kin>>
    /\ ~panic
    /\ wpc[c] = "sleep"
    /\ LET data == kfifo_get_n(data_buf, n_out_byte[c])
       IN  /\ data_buf' = kfifo_rest(data_buf, n_out_byte[c])
           /\ IF dest_filp = "NULL"
              THEN /\ wpc' = [wpc EXCEPT ![c] = "oops"]
                   /\ UNCHANGED <<out, data_wait, wrt_lock, sink, sink_failed>>
              ELSE \E r \in SinkResults(sk, n_out_byte[c]) :
                     /\ out' = [out EXCEPT ![c] = r]
                     /\ data_wait' = data_wait - r
                     /\ sink' = sink \o Written(data, r)
                     /\ sink_failed' = (sink_failed \/ r # n_out_byte[c])
                     /\ wrt_lock' = "free"
                     /\ wpc' = [wpc EXCEPT ![c] = "logs"]
    /\ UNCHANGED <<uservars, cfgvars, devvars, irq_handlers, pending, flushing,
                   n_out_byte, panic, logvars, accepted, km_session,
                   irq_set, nbytes, nevents>>

\* after mutex_unlock: the entry log and the exit log are stamped with
\* their irq_count++ and pushed, the work item is freed; flush_workqueue
\* stops waiting for it
gih_do_work_logs(c) ==
    /\ UNCHANGED <<rdvars, cnt, kin>>
    /\ ~panic
    /\ wpc[c] = "logs"
    /\ irq_count' = [irq_count EXCEPT ![WQ_N_LOG_MINOR] = @ + 1,
                                      ![WQ_X_LOG_MINOR] = @ + 1]
    /\ log_buf' = [log_buf EXCEPT
         ![WQ_N_LOG_MINOR] = LogIn(@, Log(irq_count[WQ_N_LOG_MINOR], -1)),
         ![WQ_X_LOG_MINOR] = LogIn(@, Log(irq_count[WQ_X_LOG_MINOR], out[c]))]
    /\ wpc' = [wpc EXCEPT ![c] = "idle"]
    /\ flushing' = [flushing EXCEPT ![c] = IF @ > 0 THEN @ - 1 ELSE 0]
    /\ UNCHANGED <<uservars, cfgvars, devvars, datavars, irq_handlers, pending,
                   n_out_byte, out, panic, histvars, nevents>>

\* the log section of gih_do_work load by load and store by store, as two
\* kworkers interleave in it: nothing keeps the load and the store of
\* irq_count++ together, nor the two halves of kfifo_in.  First the load of
\* the enter counter
gih_do_work_log_n(c) ==
    /\ ~panic
    /\ wpc[c] = "logs"
    /\ cnt' = [cnt EXCEPT ![c] = irq_count[WQ_N_LOG_MINOR]]
    /\ wpc' = [wpc EXCEPT ![c] = "log_n"]
    /\ UNCHANGED <<uservars, cfgvars, devvars, datavars, irq_handlers, pending,
                   flushing, n_out_byte, out, panic, logvars, rdvars, kin,
                   histvars, nevents>>

\* the store of the enter counter and the copy of the enter log into the ring
gih_do_work_in_n(c) ==
    /\ ~panic
    /\ wpc[c] = "log_n"
    /\ irq_count' = [irq_count EXCEPT ![WQ_N_LOG_MINOR] = cnt[c] + 1]
    /\ kin' = [kin EXCEPT ![c] = Put(log_buf[WQ_N_LOG_MINOR])]
    /\ log_buf' = [log_buf EXCEPT
         ![WQ_N_LOG_MINOR] = LogCopyIn(@, Log(cnt[c], -1))]
    /\ wpc' = [wpc EXCEPT ![c] = "in_n"]
    /\ UNCHANGED <<uservars, cfgvars, devvars, datavars, irq_handlers, pending,
                   flushing, n_out_byte, out, panic, rdvars, cnt, histvars,
                   nevents>>

\* in += len of the enter log, the load of the exit counter
gih_do_work_log_x(c) ==
    /\ ~panic
    /\ wpc[c] = "in_n"
    /\ \E f \in LogCommit(log_buf[WQ_N_LOG_MINOR], kin[c]) :
         log_buf' = [log_buf EXCEPT ![WQ_N_LOG_MINOR] = f]
    /\ kin' = [kin EXCEPT ![c] = NoPut]
    /\ cnt' = [cnt EXCEPT ![c] = irq_count[WQ_X_LOG_MINOR]]
    /\ wpc' = [wpc EXCEPT ![c] = "log_x"]
    /\ UNCHANGED <<uservars, cfgvars, devvars, datavars, irq_handlers, pending,
                   flushing, n_out_byte, out, panic, irq_count, rdvars,
                   histvars, nevents>>

\* (gih_do_work_in_x_NoSent: the exit log is pushed without the amount)
gih_do_work_in_x_NoSent(c) ==
    /\ ~panic
    /\ wpc[c] = "log_x"
    /\ irq_count' = [irq_count EXCEPT ![WQ_X_LOG_MINOR] = cnt[c] + 1]
    /\ kin' = [kin EXCEPT ![c] = Put(log_buf[WQ_X_LOG_MINOR])]
    /\ log_buf' = [log_buf EXCEPT
         ![WQ_X_LOG_MINOR] = LogCopyIn(@, Log(cnt[c], -1))]
    /\ wpc' = [wpc EXCEPT ![c] = "in_x"]
    /\ UNCHANGED <<uservars, cfgvars, devvars, datavars, irq_handlers, pending,
                   flushing, n_out_byte, out, panic, rdvars, cnt, histvars,
                   nevents>>

\* the store of the exit counter and the copy of the exit log into the ring
gih_do_work_in_x(c) ==
    /\ ~panic
    /\ wpc[c] = "log_x"
    /\ irq_count' = [irq_count EXCEPT ![WQ_X_LOG_MINOR] = cnt[c] + 1]
    /\ kin' = [kin EXCEPT ![c] = Put(log_buf[WQ_X_LOG_MINOR])]
    /\ log_buf' = [log_buf EXCEPT
         ![WQ_X_LOG_MINOR] = LogCopyIn(@, Log(cnt[c], out[c]))]
    /\ wpc' = [wpc EXCEPT ![c] = "in_x"]
    /\ UNCHANGED <<uservars, cfgvars, devvars, datavars, irq_handlers, pending,
                   flushing, n_out_byte, out, panic, rdvars, cnt, histvars,
                   nevents>>

\* in += len of the exit log, kfree(work)
gih_do_work_free(c) ==
    /\ ~panic
    /\ wpc[c] = "in_x"
    /\ \E f \in LogCommit(log_buf[WQ_X_LOG_MINOR], kin[c]) :
         log_buf' = [log_buf EXCEPT ![WQ_X_LOG_MINOR] = f]
    /\ kin' = [kin EXCEPT ![c] = NoPut]
    /\ wpc' = [wpc EXCEPT ![c] = "idle"]
    /\ flushing' = [flushing EXCEPT ![c] = IF @ > 0 THEN @ - 1 ELSE 0]
    /\ UNCHANGED <<uservars, cfgvars, devvars, datavars, irq_handlers, pending,
                   n_out_byte, out, panic, irq_count, rdvars, cnt, histvars,
                   nevents>>

(* -------------------------- log devices -------------------------------- *)
\* everything the log file operations leave alone
LogFrame == UNCHANGED <<uservars, cfgvars, devvars, datavars, irq_handlers,
                        wqvars, panic, irq_count, cnt, kin, histvars,
                        nevents, dev_open_ptr, emerg_fd>>

LogCall(call, minor, len, r, text, nul) ==
    [call |-> call, minor |-> minor, len |-> len, ret |-> r,
     text |-> text, nul |-> nul]

\* (log_open_NoGate: an open that takes the device whoever holds it)
log_open_NoGate(minor) ==
    /\ ~panic
    /\ log_dev_open' = [log_dev_open EXCEPT ![minor] = TRUE]
    /\ f_pos' = [f_pos EXCEPT ![minor] = 0]
    /\ log_res' = LogCall("open", minor, 0, 0, <<>>, 0)
    /\ UNCHANGED log_buf
    /\ LogFrame

log_open(minor) ==
    /\ ~panic
    /\ IF log_dev_open[minor]
       THEN /\ log_res' = LogCall("open", minor, 0, -EBUSY, <<>>, 0)
            /\ UNCHANGED <<log_dev_open, f_pos>>
       ELSE /\ log_dev_open' = [log_dev_open EXCEPT ![minor] = TRUE]
            /\ f_pos' = [f_pos EXCEPT ![minor] = 0]
            /\ log_res' = LogCall("open", minor, 0, 0, <<>>, 0)
    /\ UNCHANGED log_buf
    /\ LogFrame

\* the release of the open file of the log device
log_close(minor) ==
    /\ ~panic
    /\ log_dev_open[minor]
    /\ log_dev_open' = [log_dev_open EXCEPT ![minor] = FALSE]
    /\ log_res' = LogCall("close", minor, 0, 0, <<>>, 0)
    /\ UNCHANGED <<log_buf, f_pos>>
    /\ LogFrame

\* one rendered line: the entry and the characters snprintf stored for it,
\* at most size - 1 = len - 2 of the LineLen the line has
Line(log, len) ==
    [irq_count |-> log.irq_count, byte_sent |-> log.byte_sent,
     chars |-> IF len < 2 THEN 0 ELSE min(LineLen, len - 2)]

\* (LogReadLoop_NoLoss: the round that finds log_len >= len breaks with
\* the entry left in the kfifo)
RECURSIVE LogReadLoop_NoLoss(_, _, _, _, _)
LogReadLoop_NoLoss(f, todo, len, offset, text) ==
    IF todo = 0 \/ len = 0
    THEN [f |-> f, offset |-> offset, text |-> text]
    ELSE IF LineLen >= len
         THEN [f |-> f, offset |-> offset, text |-> text]
         ELSE LogReadLoop_NoLoss(LogOut(f), todo - 1, len - LineLen,
                                 offset + LineLen,
                                 Append(text, Line(LogPeek(f), len)))

\* the loop of log_read over the todo entries left, with len bytes of room:
\* every round takes one entry out of the kfifo; the round that finds
\* log_len >= len breaks with the entry taken and not counted
RECURSIVE LogReadLoop(_, _, _, _, _)
LogReadLoop(f, todo, len, offset, text) ==
    IF todo = 0 \/ len = 0
    THEN [f |-> f, offset |-> offset, text |-> text]
    ELSE IF LineLen >= len
         THEN [f |-> LogOut(f), offset |-> offset, text |-> text]
         ELSE LogReadLoop(LogOut(f), todo - 1, len - LineLen,
                          offset + LineLen, Append(text, Line(LogPeek(f), len)))

\* the buffer sizes a reader passes: room for less than two lines, and room
\* for every line of a full kfifo twice over
LogReadLens == {LineLen + 1, 2 * LineLen * LOG_FIFO_SZ + 1}

\* log_read: nothing unless *offset is 0; the closing NUL goes to
\* buf[*offset] after buf itself has moved on by *offset
\* (log_read_AnyOffset: a read that drains whatever *offset is)
log_read_AnyOffset(minor, len) ==
    /\ ~panic
    /\ log_dev_open[minor]
    /\ LET amount_log == LogLen(log_buf[minor])
           done == LogReadLoop(log_buf[minor], amount_log, len, 0, <<>>)
       IN  /\ log_buf' = [log_buf EXCEPT ![minor] = done.f]
           /\ f_pos' = [f_pos EXCEPT ![minor] = done.offset]
           /\ log_res' = LogCall("read", minor, len, done.offset,
                                 done.text, 2 * done.offset)
    /\ UNCHANGED log_dev_open
    /\ LogFrame

log_read(minor, len) ==
    /\ ~panic
    /\ log_dev_open[minor]
    /\ IF f_pos[minor] # 0
       THEN /\ log_res' = LogCall("read", minor, len, 0, <<>>, 0)
            /\ UNCHANGED <<log_buf, f_pos>>
       ELSE LET amount_log == LogLen(log_buf[minor])
                done == LogReadLoop(log_buf[minor], amount_log, len, 0, <<>>)
            IN  /\ log_buf' = [log_buf EXCEPT ![minor] = done.f]
                /\ f_pos' = [f_pos EXCEPT ![minor] = done.offset]
                /\ log_res' = LogCall("read", minor, len, done.offset,
                                      done.text, 2 * done.offset)
    /\ UNCHANGED log_dev_open
    /\ LogFrame

(* ---------------- the variant with the emergency device ---------------- *)
\* The gih.c that keeps pointers to its dev_open mutexes and has the fourth
\* device, gihemerg.  It has GIH_IOC_CONFIG_FINISH in place of start and
\* stop: gih.configured (held in setup) is set once and never cleared.
\* dev_open and log_dev_open say which devices have an open file that
\* went through mutex_trylock and was not released

\* everything the open gates of this variant leave alone
EmergFrame == UNCHANGED <<keep_missed, irq, sleep_msec, write_size, wrt_lock,
                          wqvars, logvars, f_pos, cnt, kin, sink_failed,
                          km_session, irq_set, nbytes, nevents>>

\* the user thread holds an open file of /dev/gih
EmergHasFd == dev_open \/ emerg_fd.gih

\* destroy_workqueue: fine on a live workqueue, a NULL dereference before
\* create_workqueue, a use after free on a destroyed one (TRUE: the kernel
\* dies)
DestroyResults(wq) ==
    IF wq = "alive" THEN {FALSE} ELSE IF wq = "NULL" THEN {TRUE}
    ELSE {TRUE, FALSE}

gih_open_emerg ==
    /\ UserReady
    /\ op' = "open"
    /\ IF dev_open_ptr = "NULL"
       THEN /\ ~emerg_fd.gih
            /\ emerg_fd' = [emerg_fd EXCEPT !.gih = TRUE]
            /\ ret' = 0
            /\ UNCHANGED <<dev_open, irq_wq, data_buf, data_wait, sink,
                           accepted, irq_handlers, dest_filp>>
       ELSE IF dev_open
       THEN /\ ret' = -EBUSY
            /\ UNCHANGED <<dev_open, irq_wq, data_buf, data_wait, sink,
                           accepted, irq_handlers, dest_filp, emerg_fd>>
       ELSE /\ dev_open' = TRUE
            /\ data_wait' = 0
            /\ irq_wq' = "alive"
            /\ data_buf' = <<>>
            /\ sink' = <<>> /\ accepted' = <<>>
            /\ emerg_fd' = emerg_fd
            /\ IF ~setup
               THEN ret' = 0 /\ UNCHANGED <<irq_handlers, dest_filp>>
               ELSE \E error \in RequestIrqResults :
                      IF error < 0
                      THEN ret' = error /\ UNCHANGED <<irq_handlers, dest_filp>>
                      ELSE /\ irq_handlers' = irq_handlers + 1
                           /\ dest_filp' \in FileOpenResults(path)
                           /\ ret' = error
    /\ UNCHANGED <<upc, setup, path, panic, log_dev_open, log_res,
                   dev_open_ptr>>
    /\ EmergFrame

\* GIH_IOC_CONFIG_PATH of this variant: the path is stored and the
\* destination file opened at once
gih_ioctl_path_emerg(arg) ==
    /\ UserReady /\ EmergHasFd
    /\ op' = "path"
    /\ IF setup
       THEN ret' = -EINVAL /\ UNCHANGED <<path, dest_filp>>
       ELSE IF PathTooLong(arg)
       THEN ret' = -EINVAL /\ UNCHANGED <<path, dest_filp>>
       ELSE /\ path' = arg
            /\ dest_filp' \in FileOpenResults(arg)
            /\ ret' = 0
    /\ UNCHANGED <<upc, dev_open, setup, irq_wq, data_buf, data_wait,
                   irq_handlers, panic, sink, accepted, log_dev_open, log_res,
                   dev_open_ptr, emerg_fd>>
    /\ EmergFrame

\* GIH_IOC_CONFIG_FINISH: request_irq, then configured = TRUE
gih_ioctl_finish_emerg ==
    /\ UserReady /\ EmergHasFd
    /\ op' = "finish"
    /\ IF setup
       THEN ret' = -EINVAL /\ UNCHANGED <<setup, irq_handlers>>
       ELSE \E error \in RequestIrqResults :
              IF error < 0
              THEN ret' = error /\ UNCHANGED <<setup, irq_handlers>>
              ELSE /\ irq_handlers' = irq_handlers + 1
                   /\ setup' = TRUE
                   /\ ret' = 0
    /\ UNCHANGED <<upc, dev_open, dest_filp, irq_wq, path, data_buf,
                   data_wait, panic, sink, accepted, log_dev_open, log_res,
                   dev_open_ptr, emerg_fd>>
    /\ EmergFrame

\* gih_close of this variant; an open file got past a NULL dev_open is
\* the one released when there is one
gih_close_emerg ==
    /\ UserReady /\ EmergHasFd
    /\ op' = "close"
    /\ WqIdle
    /\ LET unlocked == IF emerg_fd.gih \/ dev_open_ptr = "NULL"
                       THEN dev_open ELSE FALSE
           released == [emerg_fd EXCEPT !.gih = FALSE]
           dwait == data_wait
       IN  \E dead \in DestroyResults(irq_wq) :
             IF dead \/ (setup /\ dest_filp = "NULL")
             THEN /\ panic' = TRUE
                  /\ irq_handlers' =
                       IF setup /\ irq_handlers > 0
                       THEN irq_handlers - 1 ELSE irq_handlers
                  /\ UNCHANGED <<ret, dev_open, dest_filp, irq_wq, data_buf,
                                 data_wait, sink, emerg_fd>>
             ELSE /\ panic' = panic
                  /\ irq_wq' = "destroyed"
                  /\ dev_open' = unlocked
                  /\ emerg_fd' = released
                  /\ ret' = 0
                  /\ data_wait' = data_wait
                  /\ IF ~setup
                     THEN UNCHANGED <<irq_handlers, dest_filp, data_buf, sink>>
                     ELSE /\ irq_handlers' =
                               IF irq_handlers > 0
                               THEN irq_handlers - 1 ELSE irq_handlers
                          /\ sink' = sink \o kfifo_get_n(data_buf, dwait)
                          /\ data_buf' = kfifo_rest(data_buf, dwait)
                          /\ dest_filp' = "NULL"
    /\ UNCHANGED <<upc, setup, path, accepted, log_dev_open, log_res,
                   dev_open_ptr>>
    /\ EmergFrame

\* gih_emergency_open: mutex_trylock, mutex_unlock and mutex_destroy on the
\* four dev_open mutexes, then the four pointers are set to NULL; a second
\* call hands NULL to mutex_trylock
gih_emergency_open ==
    /\ UserReady
    /\ op' = "emergency"
    /\ IF dev_open_ptr = "NULL"
       THEN panic' = TRUE /\ UNCHANGED <<ret, dev_open_ptr>>
       ELSE panic' = panic /\ ret' = 0 /\ dev_open_ptr' = "NULL"
    /\ UNCHANGED <<upc, devvars, path, data_buf, data_wait, irq_handlers,
                   sink, accepted, log_dev_open, log_res, emerg_fd>>
    /\ EmergFrame

gih_emergency_close ==
    /\ UserReady
    /\ op = "emergency"
    /\ op' = "emergency_close" /\ ret' = 0
    /\ UNCHANGED <<upc, devvars, path, data_buf, data_wait, irq_handlers,
                   panic, sink, accepted, rdvars>>
    /\ EmergFrame

\* log_open of this variant: a NULL dev_open lets everybody in, and
\* private_data and f_pos are left as they are
log_open_emerg(minor) ==
    /\ ~panic
    /\ IF dev_open_ptr = "NULL"
       THEN /\ ~emerg_fd.log[minor]
            /\ emerg_fd' = [emerg_fd EXCEPT !.log[minor] = TRUE]
            /\ log_res' = LogCall("open", minor, 0, 0, <<>>, 0)
            /\ UNCHANGED <<log_dev_open, f_pos>>
       ELSE IF log_dev_open[minor]
       THEN /\ log_res' = LogCall("open", minor, 0, -EBUSY, <<>>, 0)
            /\ UNCHANGED <<log_dev_open, f_pos, emerg_fd>>
       ELSE /\ log_dev_open' = [log_dev_open EXCEPT ![minor] = TRUE]
            /\ f_pos' = [f_pos EXCEPT ![minor] = 0]
            /\ log_res' = LogCall("open", minor, 0, 0, <<>>, 0)
            /\ emerg_fd' = emerg_fd
    /\ UNCHANGED <<uservars, cfgvars, devvars, datavars, irq_handlers,
                   wqvars, panic, logvars, cnt, kin, histvars, nevents,
                   dev_open_ptr>>

\* log_close of this variant: the unlock is skipped when dev_open is NULL
log_close_emerg(minor) ==
    /\ ~panic
    /\ emerg_fd.log[minor] \/ (dev_open_ptr = "mutex" /\ log_dev_open[minor])
    /\ IF dev_open_ptr = "NULL"
       THEN /\ emerg_fd' = [emerg_fd EXCEPT !.log[minor] = FALSE]
            /\ UNCHANGED log_dev_open
       ELSE /\ log_dev_open' = [log_dev_open EXCEPT ![minor] = FALSE]
            /\ emerg_fd' = emerg_fd
    /\ log_res' = LogCall("close", minor, 0, 0, <<>>, 0)
    /\ UNCHANGED <<uservars, cfgvars, devvars, datavars, irq_handlers,
                   wqvars, panic, logvars, f_pos, cnt, kin, histvars, nevents,
                   dev_open_ptr>>

(* ------------------------- specification ------------------------------- *)
\* The pipeline on a healthy system (the sink takes every byte, kmalloc
\* succeeds): the user configures what the data path depends on (write size,
\* path, keep_missed) and leaves irq and delay at their load-time value
Next ==
    \/ gih_open
    \/ \E arg \in {1, 2} : gih_ioctl_wrt_sz(arg)
    \/ \E arg \in {<<1>>} : gih_ioctl_path(arg)
    \/ \E arg \in {0, 1} : gih_ioctl_miss(arg)
    \/ gih_ioctl_start
    \/ gih_ioctl_start_open
    \/ gih_ioctl_stop
    \/ gih_ioctl_stop_flushed
    \/ gih_write
    \/ \E len \in 0..MaxLen : gih_write_locked(len)
    \/ gih_close
    \/ gih_close_idle
    \/ gih_close_flushed
    \/ gih_close_destroy
    \/ gih_close_drain("healthy")
    \/ \E c \in CPUS : gih_intr(c, KmallocOk)
    \/ \E c \in CPUS : gih_do_work_lock(c)
    \/ \E c \in CPUS : gih_do_work_write(c, "healthy")
    \/ \E c \in CPUS : gih_do_work_logs(c)

Spec == Init /\ [][Next]_vars

\* The control interface alone: every configuration command with arguments
\* on both sides of each range check, start and stop, open and close; no
\* interrupt arrives and nothing is written
NextCfg ==
    \/ gih_open
    \/ \E arg \in IrqArgs : gih_ioctl_irq(arg)
    \/ \E arg \in DelayArgs : gih_ioctl_delay_t(arg)
    \/ \E arg \in WrtSzArgs : gih_ioctl_wrt_sz(arg)
    \/ \E arg \in PathArgs : gih_ioctl_path(arg)
    \/ \E arg \in MissArgs : gih_ioctl_miss(arg)
    \/ gih_ioctl_start
    \/ gih_ioctl_start_open
    \/ gih_ioctl_stop
    \/ gih_ioctl_stop_flushed
    \/ gih_close
    \/ gih_close_idle
    \/ gih_close_flushed
    \/ gih_close_destroy
    \/ gih_close_drain("healthy")

SpecCfg == Init /\ [][NextCfg]_vars

\* The logs.  The run starts where a freshly loaded device has been opened,
\* given a chunk size of 1 and a path, and has taken one write of L bytes:
\* after gih_open, GIH_IOC_CONFIG_WRT_SZ, GIH_IOC_CONFIG_PATH and gih_write.
\* From there the device is started and events fire; LogExtraEvents more
\* events are explored than elsewhere, so that a log kfifo can be full when
\* an entry arrives.  Under SpecLog a reader works on the log devices while
\* each kworker goes through its log section in one piece; under SpecRace
\* the log section is taken load by load and store by store
InitLog ==
    /\ upc = "none" /\ op = "write"
    /\ dev_open = TRUE /\ setup = FALSE /\ keep_missed = FALSE
    /\ irq = 0 /\ sleep_msec = 0 /\ path = <<1>>
    /\ write_size = 1
    /\ dest_filp = "NULL" /\ irq_wq = "alive"
    /\ \E L \in 1..DATA_FIFO_SZ :
         /\ data_buf = Request(0, L) /\ data_wait = L /\ ret = L
         /\ accepted = Request(0, L) /\ nbytes = L
    /\ wrt_lock = "free"
    /\ irq_handlers = 0
    /\ pending = [c \in CPUS |-> 0] /\ flushing = [c \in CPUS |-> 0]
    /\ wpc = [c \in CPUS |-> "idle"]
    /\ n_out_byte = [c \in CPUS |-> 0] /\ out = [c \in CPUS |-> 0]
    /\ panic = FALSE
    /\ irq_count = [m \in Minors |-> 0] /\ log_buf = [m \in Minors |-> LogKfifo]
    /\ log_dev_open = [m \in Minors |-> FALSE] /\ f_pos = [m \in Minors |-> 0]
    /\ log_res = NoLogCall
    /\ dev_open_ptr = "mutex" /\ emerg_fd = NoEmergFd
    /\ cnt = [c \in CPUS |-> 0]
    /\ kin = [c \in CPUS |-> NoPut]
    /\ sink = <<>> /\ sink_failed = FALSE
    /\ km_session = FALSE /\ irq_set = FALSE
    /\ nevents = 0 - LogExtraEvents

\* the reader follows the log of the top half and the log of the exits, with
\* room for every line of a full kfifo
ReadMinors == {INTR_LOG_MINOR, WQ_X_LOG_MINOR}

LogReadRoom == 2 * LineLen * LOG_FIFO_SZ + 1

NextLog ==
    \/ gih_ioctl_start
    \/ gih_ioctl_start_open
    \/ \E c \in CPUS : gih_intr(c, KmallocOk)
    \/ \E c \in CPUS : gih_do_work_lock(c)
    \/ \E c \in CPUS : gih_do_work_write(c, "healthy")
    \/ \E c \in CPUS : gih_do_work_logs(c)
    \/ \E minor \in ReadMinors : log_open(minor)
    \/ log_close(WQ_X_LOG_MINOR)
    \/ \E minor \in ReadMinors : log_read(minor, LogReadRoom)

SpecLog == InitLog /\ [][NextLog]_vars

\* A reader of the log of the top half with buffers of every size of
\* LogReadLens, while the line interrupts
NextRead ==
    \/ gih_ioctl_start
    \/ gih_ioctl_start_open
    \/ \E c \in CPUS : gih_intr(c, KmallocOk)
    \/ log_open(INTR_LOG_MINOR)
    \/ log_close(INTR_LOG_MINOR)
    \/ \E len \in LogReadLens : log_read(INTR_LOG_MINOR, len)

SpecRead == InitLog /\ [][NextRead]_vars

NextRace ==
    \/ gih_ioctl_start
    \/ gih_ioctl_start_open
    \/ \E c \in CPUS : gih_intr(c, KmallocOk)
    \/ \E c \in CPUS : gih_do_work_lock(c)
    \/ \E c \in CPUS : gih_do_work_write(c, "healthy")
    \/ \E c \in CPUS : gih_do_work_log_n(c)
    \/ \E c \in CPUS : gih_do_work_in_n(c)
    \/ \E c \in CPUS : gih_do_work_log_x(c)
    \/ \E c \in CPUS : gih_do_work_in_x(c)
    \/ \E c \in CPUS : gih_do_work_free(c)

SpecRace == InitLog /\ [][NextRace]_vars

\* The open gates alone: the four devices are opened and released in every
\* order on a device that is never started
NextGate ==
    \/ gih_open
    \/ gih_close
    \/ gih_close_idle
    \/ \E minor \in Minors : log_open(minor)
    \/ \E minor \in Minors : log_close(minor)

SpecGate == Init /\ [][NextGate]_vars

\* The driver with a kmalloc that may return NULL and a destination file
\* whose vfs_write may come back short or with an error; keep_missed stays
\* as the module loads it
NextFault ==
    \/ gih_open
    \/ \E arg \in {1, 2} : gih_ioctl_wrt_sz(arg)
    \/ \E arg \in {<<1>>} : gih_ioctl_path(arg)
    \/ gih_ioctl_start
    \/ gih_ioctl_start_open
    \/ gih_ioctl_stop
    \/ gih_ioctl_stop_flushed
    \/ gih_write
    \/ \E len \in 0..MaxLen : gih_write_locked(len)
    \/ gih_close
    \/ gih_close_idle
    \/ gih_close_flushed
    \/ gih_close_destroy
    \/ gih_close_drain("failing")
    \/ \E c \in CPUS : gih_intr(c, KmallocAny)
    \/ \E c \in CPUS : gih_do_work_lock(c)
    \/ \E c \in CPUS : gih_do_work_write(c, "failing")
    \/ \E c \in CPUS : gih_do_work_logs(c)

SpecFault == Init /\ [][NextFault]_vars

\* The driver with keep_missed set either way and a destination file
\* whose vfs_write may come back short or with an error, in gih_do_work and
\* in the drain of gih_close
NextDrain ==
    \/ gih_open
    \/ gih_ioctl_wrt_sz(1)
    \/ \E arg \in {<<1>>} : gih_ioctl_path(arg)
    \/ \E arg \in {0, 1} : gih_ioctl_miss(arg)
    \/ gih_ioctl_start
    \/ gih_ioctl_start_open
    \/ gih_ioctl_stop
    \/ gih_ioctl_stop_flushed
    \/ gih_write
    \/ \E len \in 0..MaxLen : gih_write_locked(len)
    \/ gih_close
    \/ gih_close_idle
    \/ gih_close_flushed
    \/ gih_close_destroy
    \/ gih_close_drain("failing")
    \/ \E c \in CPUS : gih_intr(c, KmallocOk)
    \/ \E c \in CPUS : gih_do_work_lock(c)
    \/ \E c \in CPUS : gih_do_work_write(c, "failing")
    \/ \E c \in CPUS : gih_do_work_logs(c)

SpecDrain == Init /\ [][NextDrain]_vars

\* The variant with the emergency device: sessions on the four devices,
\* configuration up to GIH_IOC_CONFIG_FINISH, and the emergency device
NextEmerg ==
    \/ gih_open_emerg
    \/ \E arg \in {<<1>>} : gih_ioctl_path_emerg(arg)
    \/ gih_ioctl_finish_emerg
    \/ gih_close_emerg
    \/ gih_emergency_open
    \/ gih_emergency_close
    \/ \E minor \in Minors : log_open_emerg(minor)
    \/ \E minor \in Minors : log_close_emerg(minor)

SpecEmerg == Init /\ [][NextEmerg]_vars

(* ------------------------------ claims --------------------------------- *)
\* the bytes of s that came from a write (label 0 is a stack byte)
RealBytes(s) == SelectSeq(s, LAMBDA b : b > 0)

\* C1: with keep_missed TRUE during the whole session and no sink failure,
\* the bytes that reached the sink are a prefix of the bytes gih_write
\* accepted since gih_open (nothing reordered, nothing written twice)
C1_SinkIsPrefixOfAccepted ==
    (km_session /\ ~sink_failed) => IsPrefix(sink, accepted)

\* C2: once the session has been closed and the sink never failed, every
\* byte gih_write accepted is in the sink, in write order and exactly once
C2_AcceptedAllFlushedAtClose ==
    (op = "close" /\ upc = "none" /\ ~dev_open /\ ~sink_failed)
        => RealBytes(sink) = accepted

\* C3: a gih_write of len bytes returns min(len, free space of the buffer as
\* it was at the call), appends that many bytes of the request, in order,
\* to the buffered bytes and adds that number to data_wait
C3_WriteAppendsToBufferAtCall ==
    [][(upc = "write" /\ upc' = "none") =>
        LET len == nbytes' - nbytes
            free == DATA_FIFO_SZ - Len(data_buf)
            acc == IF len < free THEN len ELSE free
        IN  /\ ret' = acc
            /\ data_buf' = data_buf \o [i \in 1..acc |-> nbytes + i]
            /\ data_wait' = data_wait + acc]_vars

\* C3 as the code has it: with keep_missed FALSE the write first empties the
\* buffer and zeroes data_wait, and the rule applies to what is left
C3_WriteAppendsAfterReset ==
    [][(upc = "write" /\ upc' = "none") =>
        LET len == nbytes' - nbytes
            kept == IF keep_missed THEN data_buf ELSE <<>>
            wait == IF keep_missed THEN data_wait ELSE 0
            free == DATA_FIFO_SZ - Len(kept)
            acc == IF len < free THEN len ELSE free
        IN  /\ ret' = acc
            /\ ret' >= 0
            /\ data_buf' = kept \o [i \in 1..acc |-> nbytes + i]
            /\ data_wait' = wait + acc]_vars

\* a write with keep_missed FALSE took a full buffer of bytes although
\* bytes accepted before it had not been flushed
C3_Witness ==
    /\ op = "write" /\ upc = "none" /\ ~keep_missed
    /\ ret = DATA_FIFO_SZ /\ Len(data_buf) = DATA_FIFO_SZ
    /\ Len(accepted) > DATA_FIFO_SZ /\ sink = <<>>

\* C4: a gih_write never waits for a flush cycle: while a gih_do_work is in
\* its sleep or its sink write, the write can run to completion
C4_WriteNeverWaitsForFlush ==
    (setup /\ upc = "write" /\ ~panic /\ \E c \in CPUS : wpc[c] = "sleep")
        => ENABLED (\E len \in 0..MaxLen : gih_write_locked(len))

\* C4 as the code has it: gih_write takes the mutex gih_do_work holds across
\* its sleep and its sink write, so no write completes during them
C4_WriteWaitsForFlush ==
    [][(upc = "write" /\ upc' = "none") =>
        \A c \in CPUS : wpc[c] \notin {"sleep", "oops"}]_vars

\* a write is blocked at mutex_lock while a worker sleeps with the lock
C4_Witness ==
    setup /\ upc = "write" /\ wrt_lock = "kworker" /\ \E c \in CPUS : wpc[c] = "sleep"

\* a step of one of the five configuration commands
ConfigStep ==
    \/ \E arg \in IrqArgs : gih_ioctl_irq(arg)
    \/ \E arg \in DelayArgs : gih_ioctl_delay_t(arg)
    \/ \E arg \in WrtSzArgs : gih_ioctl_wrt_sz(arg)
    \/ \E arg \in PathArgs : gih_ioctl_path(arg)
    \/ \E arg \in MissArgs : gih_ioctl_miss(arg)

\* C5: while the device is Running every configuration command returns
\* -EBUSY, and irq, sleep_msec, write_size, path and keep_missed change only
\* in steps that begin and end with the device Stopped
C5_ConfigFrozenWhileRunning ==
    [][/\ (setup /\ ConfigStep) => (ret' = -EBUSY /\ UNCHANGED cfgvars)
       /\ (cfgvars' # cfgvars) => (~setup /\ ~setup')]_vars

\* a configuration command came back with -EBUSY from a Running device that
\* still has the configuration it was started with
C5_Witness ==
    /\ setup /\ upc = "none" /\ ret = -EBUSY
    /\ op \in {"irq", "delay", "wrt_sz", "path", "miss"}
    /\ write_size > 0 /\ Len(path) > 0

\* the outcome of a rejected configuration command
Rejected == ret' = -EINVAL /\ UNCHANGED cfgvars

\* C6: while the device is Stopped a configuration command with a value out
\* of range (irq < 0, delay < 0, write size <= 0 as the int the code reads,
\* path longer than PATH_MAX_LEN - 1) returns -EINVAL and changes nothing;
\* one with a value in range returns 0 and changes exactly its field
C6_ConfigValidatedWhileStopped ==
    [][~setup =>
        /\ \A arg \in IrqArgs : gih_ioctl_irq(arg) =>
              IF arg >= IntLim THEN Rejected
              ELSE /\ ret' = 0 /\ irq' = arg
                   /\ UNCHANGED <<keep_missed, sleep_msec, write_size, path>>
        /\ \A arg \in DelayArgs : gih_ioctl_delay_t(arg) =>
              IF arg >= IntLim THEN Rejected
              ELSE /\ ret' = 0 /\ sleep_msec' = arg
                   /\ UNCHANGED <<keep_missed, irq, write_size, path>>
        /\ \A arg \in WrtSzArgs : gih_ioctl_wrt_sz(arg) =>
              IF arg >= IntLim \/ arg = 0 THEN Rejected
              ELSE /\ ret' = 0 /\ write_size' = arg
                   /\ UNCHANGED <<keep_missed, irq, sleep_msec, path>>
        /\ \A arg \in PathArgs : gih_ioctl_path(arg) =>
              IF Len(arg) > PATH_MAX_LEN - 1 THEN Rejected
              ELSE /\ ret' = 0 /\ path' = arg
                   /\ UNCHANGED <<keep_missed, irq, sleep_msec, write_size>>
        /\ \A arg \in MissArgs : gih_ioctl_miss(arg) =>
              /\ ret' = 0 /\ keep_missed' = (arg # 0)
              /\ UNCHANGED <<irq, sleep_msec, write_size, path>>]_vars

\* a path of PATH_MAX_LEN characters was rejected by a Stopped device that
\* keeps the longest legal path it was given before
C6_Witness ==
    /\ ~setup /\ upc = "none" /\ op = "path" /\ ret = -EINVAL
    /\ Len(path) = PATH_MAX_LEN - 1

\* what start and stop act on
ControlState == <<upc, cfgvars, devvars, datavars, irq_handlers, wqvars, sink>>

\* C7: start on a Running device and stop on a Stopped device return -EBUSY
\* and leave the state, the registration of the handler, the sink handle
\* and the buffered data as they were
C7_StartStopBusy ==
    [][/\ (setup /\ gih_ioctl_start) => (ret' = -EBUSY /\ UNCHANGED ControlState)
       /\ (~setup /\ gih_ioctl_stop) => (ret' = -EBUSY /\ UNCHANGED ControlState)]_vars

\* stop came back with -EBUSY from a Stopped device that holds buffered data
C7_Witness ==
    /\ ~setup /\ upc = "none" /\ op = "stop" /\ ret = -EBUSY
    /\ Len(data_buf) > 0 /\ dest_filp = "NULL"

\* C8: a start on a device whose irq or whose path was never configured is
\* rejected: the device stays Stopped and no handler is registered
C8_StartNeedsIrqAndPath ==
    [][(~setup /\ gih_ioctl_start /\ (~irq_set \/ path = <<>>)) =>
        (ret' < 0 /\ upc' = "none" /\ irq_handlers' = irq_handlers)]_vars

\* C9: a start that failed leaves the device as it was before the call: no
\* handler stays registered and no sink is open
C9_FailedStartLeavesNothing ==
    (op = "start" /\ upc = "none" /\ ret < 0 /\ ~setup)
        => (irq_handlers = 0 /\ dest_filp = "NULL")

\* the return of GIH_IOC_CONFIG_STOP and of a gih_close that drained
StopReturns == upc = "stop_flush" /\ upc' = "none"
CloseReturns == upc = "close_lock" /\ upc' = "none"

C11_StopDiscardsEverything ==
    [][((StopReturns \/ CloseReturns) /\ ~keep_missed) =>
        /\ data_wait' = 0 /\ data_buf' = <<>>
        /\ sink' = sink
        /\ ret' = 0]_vars

\* C11 as the code has it: with keep_missed FALSE gih_close of a Running
\* device empties the buffer, zeroes data_wait, writes nothing and returns
\* 0; GIH_IOC_CONFIG_STOP returns 0 and leaves buffer and data_wait alone
C11_CloseDiscardsStopKeeps ==
    [][/\ (StopReturns /\ ~keep_missed) =>
            (ret' = 0 /\ data_buf' = data_buf /\ data_wait' = data_wait
             /\ sink' = sink)
       /\ (CloseReturns /\ ~keep_missed) =>
            (ret' = 0 /\ data_buf' = <<>> /\ data_wait' = 0
             /\ sink' = sink)]_vars

\* GIH_IOC_CONFIG_STOP succeeded with keep_missed FALSE and the bytes of
\* the last write are still buffered
C11_Witness ==
    /\ op = "stop" /\ upc = "none" /\ ret = 0 /\ ~setup /\ ~keep_missed
    /\ Len(data_buf) > 0 /\ data_wait = Len(data_buf) /\ sink = <<>>

\* the return of a gih_close that found the device not set up
CloseIdleReturns == upc = "close_idle" /\ upc' = "none"

\* C12: stop and close join the flush work: no gih_do_work is queued or
\* running when the drain runs and the sink is closed, and none is queued
\* or running once stop or close has returned
C12_StopJoinsFlushWork ==
    [][(StopReturns \/ CloseReturns \/ CloseIdleReturns) =>
        (WqIdle /\ WqIdle')]_vars

\* C13: stop and close return even if a gih_do_work in flight never
\* completes: waiting for the work queue does not block them for ever
C13_StopReturnsThoughWorkerStuck ==
    (upc \in {"stop_flush", "close_flush"} /\ ~panic /\ ~Flushed)
        => ENABLED (gih_ioctl_stop_flushed \/ gih_close_flushed)

\* what the drain of gih_close does to buffer and sink, by keep_missed
DrainPolicy ==
    IF keep_missed
    THEN sink_failed' \/ sink' = sink \o SubSeq(data_buf, 1, data_wait)
    ELSE data_buf' = <<>> /\ data_wait' = 0 /\ sink' = sink

Holders == {c \in CPUS : wpc[c] \in {"sleep", "oops"}}

\* C18: the invocations of gih_do_work are serialized by wrt_lock: at most
\* one is between lock and unlock, gih_write and the drain of gih_close
\* touch the buffer only when none is, and an invocation computes
\* n_out_byte only when no other holds the lock
C18_FlushWorkSerialized ==
    [][/\ Cardinality(Holders) <= 1
       /\ (Holders # {}) <=> (wrt_lock = "kworker")
       /\ ((upc \in {"write", "close_lock"} /\ upc' = "none") => Holders = {})
       /\ \A c \in CPUS :
            (wpc[c] = "idle" /\ wpc'[c] = "sleep") => Holders = {}]_vars

\* two events back to back: the second work item waits while the first
\* sleeps with the lock, and a gih_write waits as well
C18_Witness ==
    /\ setup /\ wpc[1] = "sleep" /\ pending[2] > 0 /\ wpc[2] = "idle"
    /\ upc = "write" /\ wrt_lock = "kworker"

\* C15: each of the four devices (gih and the three logs) has one open file
\* at most: an open of a device that is open returns -EBUSY and changes
\* nothing, an open of a free device takes that device's gate and no other,
\* and a gate is given back by the release of its own device only
GihGateFrame == UNCHANGED <<cfgvars, setup, dest_filp, wrt_lock, irq_handlers,
                            wqvars, panic, logvars, rdvars, cnt, kin>>
C15_ExclusiveOpenPerDevice ==
    [][/\ (gih_open /\ dev_open) =>
            (ret' = -EBUSY /\ dev_open' /\ GihGateFrame
             /\ UNCHANGED <<irq_wq, data_buf, data_wait>>)
       /\ (gih_open /\ ~dev_open) => (ret' = 0 /\ dev_open' /\ GihGateFrame)
       /\ \A m \in Minors :
            /\ (log_open(m) /\ log_dev_open[m]) =>
                 (log_res'.ret = -EBUSY
                  /\ UNCHANGED <<log_dev_open, f_pos, log_buf, irq_count,
                                 uservars, cfgvars, devvars, datavars>>)
            /\ (log_open(m) /\ ~log_dev_open[m]) =>
                 (log_res'.ret = 0
                  /\ log_dev_open' = [log_dev_open EXCEPT ![m] = TRUE]
                  /\ f_pos'[m] = 0
                  /\ UNCHANGED <<log_buf, irq_count, uservars, cfgvars,
                                 devvars, datavars>>)
            /\ (log_dev_open[m] /\ ~log_dev_open'[m]) =>
                 (log_res'.call = "close" /\ log_res'.minor = m
                  /\ \A o \in Minors \ {m} :
                        log_dev_open'[o] = log_dev_open[o])
       /\ (dev_open /\ ~dev_open') =>
            (op = "close" /\ log_dev_open' = log_dev_open)]_vars
C15_Witness ==
    /\ log_res.call = "open" /\ log_res.minor = WQ_N_LOG_MINOR
    /\ log_res.ret = -EBUSY
    /\ log_dev_open[WQ_N_LOG_MINOR] /\ ~log_dev_open[INTR_LOG_MINOR]
    /\ log_dev_open[WQ_X_LOG_MINOR]
    /\ dev_open /\ op = "open" /\ ret = -EBUSY /\ upc = "none"

\* C16: no log kfifo ever holds more than LOG_FIFO_SZ entries; a push that
\* finds the kfifo full leaves the entries in it as they are, in their
\* order, and the producer goes on
LogPush(m) == log_buf'[m] # log_buf[m] /\ log_buf'[m].out = log_buf[m].out
C16_LogNeverExceedsCapacity ==
    [][\A m \in Minors :
         /\ LogLen(log_buf[m]) <= LOG_FIFO_SZ
         /\ LogLen(log_buf'[m]) <= LOG_FIFO_SZ
         /\ LogPush(m) =>
              /\ LogLen(log_buf'[m]) >= LogLen(log_buf[m])
              /\ SubSeq(Entries(log_buf'[m]), 1, LogLen(log_buf[m]))
                   = Entries(log_buf[m])
         /\ (LogLen(log_buf[m]) = LOG_FIFO_SZ /\ log_buf'[m].out = log_buf[m].out)
              => Entries(log_buf'[m]) = Entries(log_buf[m])]_vars

\* C17: in every log kfifo the irq_count of the entries grows strictly from
\* the oldest entry to the newest, and no step makes the irq_count of a log
\* device smaller
Increasing(es) ==
    \A i \in 1..Len(es), j \in 1..Len(es) :
        i < j => es[i].irq_count < es[j].irq_count
C17_LogSequenceIncreasing ==
    [][\A m \in Minors :
         /\ Increasing(Entries(log_buf[m]))
         /\ Increasing(Entries(log_buf'[m]))
         /\ irq_count'[m] >= irq_count[m]]_vars

\* C19: on a freshly loaded device that was opened, took one write of L
\* bytes and was started with write_size c, once k interrupts have fired
\* and their work is done the sink holds the first min(L, k * c) bytes
\* written, the first read of the intr log gives k entries numbered
\* 0 .. k-1 and the first read of the exit log gives k entries whose
\* byte_sent are the amounts flushed one after the other
Fired == nevents + LogExtraEvents
Amount(i) == min(write_size, Len(accepted) - min(Len(accepted), (i - 1) * write_size))
FirstDrain(m) == log_buf[m].out = 0 /\ log_buf'[m].out > 0
C19_EndToEnd ==
    [][\A k \in 1..LOG_FIFO_SZ :
         (Fired = k /\ setup /\ irq_handlers = 1 /\ WqIdle) =>
           /\ sink = SubSeq(accepted, 1, min(Len(accepted), k * write_size))
           /\ FirstDrain(INTR_LOG_MINOR) =>
                /\ Len(log_res'.text) = k
                /\ \A i \in 1..k : log_res'.text[i].irq_count = i - 1
           /\ FirstDrain(WQ_X_LOG_MINOR) =>
                /\ Len(log_res'.text) = k
                /\ \A i \in 1..k : log_res'.text[i].byte_sent = Amount(i)]_vars

\* C20 as stated: every read of an open log device starts at position zero
\* and drains: it returns the lines of all the entries stored and leaves
\* the kfifo empty, the second read on one open file like the first
Drained(m) ==
    /\ log_res'.ret = LineLen * LogLen(log_buf[m])
    /\ Len(log_res'.text) = LogLen(log_buf[m])
    /\ \A i \in 1..LogLen(log_buf[m]) :
          /\ log_res'.text[i].irq_count = Entries(log_buf[m])[i].irq_count
          /\ log_res'.text[i].byte_sent = Entries(log_buf[m])[i].byte_sent
    /\ LogLen(log_buf'[m]) = 0
WriteReturns == upc = "write" /\ upc' = "none"

\* C21 as stated: whatever keep_missed is, the bytes buffered before a
\* gih_write are still in the buffer, in place, when it returns
C21_WriteKeepsBufferedBytes ==
    [][WriteReturns => IsPrefix(data_buf, data_buf')]_vars

\* C21: a gih_write keeps the buffered bytes in place when keep_missed is
\* TRUE; when keep_missed is FALSE it discards every one of them, and the
\* buffer is left with bytes of that write's request only
C21_WriteDiscardsUnlessKeepMissed ==
    [][WriteReturns =>
        IF keep_missed
        THEN IsPrefix(data_buf, data_buf')
        ELSE \A i \in 1..Len(data_buf') :
                 /\ data_buf'[i] > nbytes
                 /\ \A j \in 1..Len(data_buf) : data_buf'[i] # data_buf[j]]_vars
C21_Witness ==
    /\ op = "write" /\ upc = "none" /\ ~keep_missed /\ ~setup
    /\ ret = 1 /\ data_buf = <<2>> /\ accepted = <<1, 2>> /\ sink = <<>>

\* C22: with keep_missed FALSE a gih_write leaves in the buffer exactly the
\* bytes it accepted and data_wait is the number it returns; with
\* keep_missed TRUE the accepted bytes come after the bytes buffered before
C22_WriteClearsOrAppends ==
    [][WriteReturns =>
        LET new == SubSeq(accepted', Len(accepted) + 1, Len(accepted'))
        IN  /\ Len(new) = ret'
            /\ IF keep_missed
               THEN data_buf' = data_buf \o new
               ELSE data_buf' = new /\ data_wait' = ret']_vars
C22_Witness ==
    /\ op = "write" /\ upc = "none" /\ ~keep_missed /\ ~setup
    /\ ret = 2 /\ data_buf = <<2, 3>> /\ data_wait = 2
    /\ accepted = <<1, 2, 3>> /\ sink = <<>>

\* C23: once the emergency device has been opened, a new open of the gih
\* device or of a log device that a dead session still holds returns 0
\* instead of -EBUSY, and the close that follows returns 0 and does not
\* bring the kernel down.
C23_ForceReleaseRecovers ==
    [][dev_open_ptr = "NULL" =>
         /\ (dev_open /\ gih_open_emerg => ret' = 0 /\ ~panic')
         /\ (dev_open /\ emerg_fd.gih /\ gih_close_emerg =>
                ret' = 0 /\ ~panic')
         /\ \A m \in Minors :
              /\ (log_dev_open[m] /\ log_open_emerg(m) => log_res'.ret = 0)
              /\ (log_dev_open[m] /\ emerg_fd.log[m] /\ log_close_emerg(m) =>
                     log_res'.ret = 0 /\ ~panic')]_vars

\* C24: a gih_do_work that gets wrt_lock computes n = min(bytes in the data
\* kfifo, write_size), and its flush removes exactly the first n bytes of
\* the kfifo and appends exactly these to the destination file: at most
\* write_size bytes, none when the kfifo is empty.
C24_FlushExactlyN ==
    [][\A c \in CPUS :
         /\ (gih_do_work_lock(c) =>
               /\ n_out_byte'[c] = min(Len(data_buf), write_size)
               /\ n_out_byte'[c] <= write_size
               /\ (data_buf = <<>> => n_out_byte'[c] = 0))
         /\ (gih_do_work_write(c, "healthy") =>
               LET n == n_out_byte[c]
               IN  /\ n <= Len(data_buf)
                   /\ data_buf' = SubSeq(data_buf, n + 1, Len(data_buf))
                   /\ sink' = sink \o SubSeq(data_buf, 1, n))]_vars

\* work items queued or running, over a set of CPUs
RECURSIVE Unfinished(_)
Unfinished(S) ==
    IF S = {} THEN 0
    ELSE LET c == CHOOSE x \in S : TRUE
         IN  pending[c] + (IF wpc[c] = "idle" THEN 0 ELSE 1)
               + Unfinished(S \ {c})

C26_HandlerNeverFails ==
    [][\A c \in CPUS :
         gih_intr(c, KmallocAny) =>
           /\ ~panic'
           /\ pending'[c] = pending[c] + 1
           /\ wrt_lock' = wrt_lock /\ upc' = upc
           /\ (LogLen(log_buf[INTR_LOG_MINOR]) = LOG_FIFO_SZ =>
                 log_buf'[INTR_LOG_MINOR] = log_buf[INTR_LOG_MINOR])]_vars

\* the places of gih_do_work behind mutex_lock and behind mutex_unlock
HasLocked(c) == wpc[c] # "idle"
HasUnlocked(c) == wpc[c] \in {"logs", "log_n", "in_n", "log_x", "in_x"}

\* the slot a kfifo_in that finds room copies its entry to
Slot(f) == f.in % LOG_FIFO_SZ

\* C27: a gih_do_work pushes its enter log before it takes wrt_lock: no
\* invocation that has passed mutex_lock pushes an enter log any more.
C27_EnterLogBeforeLock ==
    [][\A c \in CPUS : gih_do_work_in_n(c) => ~HasLocked(c)]_vars

\* C27 (amended): a gih_do_work takes wrt_lock, flushes and releases the
\* lock with the logs untouched, and only then pushes its enter log
\* (byte_sent -1) and after it its exit log with byte_sent = out: its enter
\* log is not in the enter log yet when it takes the lock and writes.
C27_LogsAfterUnlock ==
    [][\A c \in CPUS :
         /\ (gih_do_work_lock(c) \/ gih_do_work_write(c, "healthy") =>
               UNCHANGED <<logvars, kin>>)
         /\ (gih_do_work_in_n(c) =>
               /\ HasUnlocked(c) /\ wpc[c] # "in_x"
               /\ (LogRoom(log_buf[WQ_N_LOG_MINOR]) = 1 =>
                     log_buf'[WQ_N_LOG_MINOR].data[Slot(log_buf[WQ_N_LOG_MINOR])]
                       = Log(cnt[c], -1))
               /\ log_buf'[WQ_X_LOG_MINOR] = log_buf[WQ_X_LOG_MINOR])
         /\ (gih_do_work_in_x(c) =>
               /\ HasUnlocked(c) /\ wpc[c] = "log_x"
               /\ (LogRoom(log_buf[WQ_X_LOG_MINOR]) = 1 =>
                     log_buf'[WQ_X_LOG_MINOR].data[Slot(log_buf[WQ_X_LOG_MINOR])]
                       .byte_sent = out[c]))]_vars

\* an invocation that flushed one byte has pushed its enter log and has
\* copied its exit log into the ring
C27_Witness ==
    \E c \in CPUS :
      /\ wpc[c] = "in_x" /\ out[c] = 1
      /\ LogLen(log_buf[WQ_N_LOG_MINOR]) = 1
      /\ log_buf[WQ_X_LOG_MINOR].data[0] = Log(0, 1)
      /\ sink = <<1>>

\* C28: when the vfs_write of a gih_do_work returns fewer than n_out_byte
\* bytes (a short write or an error), only the bytes written have left the
\* data kfifo, the others are still at its head in their order, and
\* data_wait has gone down by the number of bytes written.
C28_UnwrittenBytesStay ==
    [][\A c \in CPUS :
         /\ gih_do_work_write(c, "failing")
         /\ wpc'[c] = "logs"
         /\ out'[c] < n_out_byte[c]
         => LET written == IF out'[c] > 0 THEN out'[c] ELSE 0
            IN  /\ data_buf' = SubSeq(data_buf, written + 1, Len(data_buf))
                /\ data_wait' = data_wait - written]_vars

\* C29: whenever nobody holds wrt_lock, 0 <= data_wait <= bytes in the
\* data kfifo <= DATA_FIFO_SZ, also after flushes whose vfs_write came back
\* short or with an error.
C29_DataWaitWithinBuffer ==
    wrt_lock = "free" =>
      /\ 0 <= data_wait
      /\ data_wait <= kfifo_len(data_buf)
      /\ kfifo_len(data_buf) <= DATA_FIFO_SZ

\* C30: a gih_do_work that sleeps in usleep_range sleeps for sleep_msec
\* less the time correction, clamped at 0: both bounds are at most
\* sleep_msec in microseconds, the lower one is the clamped difference and
\* is not above the upper one (the unsigned subtraction does not wrap).
C30_SleepBoundsClamped ==
    \A c \in CPUS :
      wpc[c] = "sleep" =>
        LET lower == UsleepMin(sleep_msec)
            upper == UsleepMax(sleep_msec)
            usec  == sleep_msec * 1000
        IN  /\ 0 <= lower /\ lower <= upper /\ upper <= usec
            /\ lower = IF usec > 2 * 2 * TIME_DELTA
                       THEN usec - 2 * 2 * TIME_DELTA ELSE 0

\* C31: a log_read at position 0 renders the oldest entries of the kfifo in
\* their order, never more than were stored when it started, each as one
\* whole line, and returns the length of these lines, which is at most len.
C31_ReadWholeLinesInOrder ==
    [][\A len \in LogReadLens :
         log_read(INTR_LOG_MINOR, len) /\ f_pos[INTR_LOG_MINOR] = 0 =>
           LET old  == Entries(log_buf[INTR_LOG_MINOR])
               text == log_res'.text
           IN  /\ Len(text) <= Len(old)
               /\ \A i \in 1..Len(text) :
                    /\ text[i].irq_count = old[i].irq_count
                    /\ text[i].byte_sent = old[i].byte_sent
                    /\ text[i].chars = LineLen
               /\ log_res'.ret = Len(text) * LineLen
               /\ log_res'.ret <= len]_vars

\* C32: gih_intr is registered on the interrupt line only while the
\* device runs (gih.setup, or a GIH_IOC_CONFIG_START on its way from
\* request_irq to gih.setup = TRUE), and never more than once: no event
\* is delivered after a failed start, after stop or after close.
C32_HandlerOnlyWhileRunning ==
    /\ irq_handlers <= 1
    /\ (irq_handlers > 0 => dev_open /\ (setup \/ upc = "start_open"))

\* C33: nothing released is used: a gih_do_work never calls vfs_write while
\* gih.dest_filp is NULL, and gih_intr never calls queue_work on a
\* workqueue that is not alive.
C33_NoUseOfReleased ==
    [][\A c \in CPUS :
         /\ (gih_do_work_write(c, "healthy") => dest_filp = "open")
         /\ (gih_intr(c, KmallocOk) => irq_wq = "alive")]_vars

\* the invocations of gih_do_work that have returned, and those that have
\* stored the counter of a log and not returned yet
Returned == irq_count[INTR_LOG_MINOR] - Unfinished(CPUS)
StoredEnter == Cardinality({c \in CPUS : wpc[c] \in {"in_n", "log_x", "in_x"}})
StoredExit == Cardinality({c \in CPUS : wpc[c] = "in_x"})

\* no two entries of the kfifo of a log device carry the same irq_count
UniqueCounts(m) ==
    LET e == Entries(log_buf[m])
    IN  \A i, j \in 1..Len(e) : i # j => e[i].irq_count # e[j].irq_count

\* C34: with several gih_do_work running at once, the entries of the enter
\* log and of the exit log carry pairwise different irq_count values, and
\* no irq_count++ is lost: each counter is the number of invocations that
\* have incremented it.
C34_SequenceNumbersUnique ==
    /\ UniqueCounts(WQ_N_LOG_MINOR) /\ UniqueCounts(WQ_X_LOG_MINOR)
    /\ irq_count[WQ_N_LOG_MINOR] = Returned + StoredEnter
    /\ irq_count[WQ_X_LOG_MINOR] = Returned + StoredExit

\* C35: a log_read stores nothing outside the len bytes of the buffer it
\* was given: the lines end within it, and the closing NUL is stored at an
\* index in 0..len-1.
C35_ReadStaysInBuffer ==
    [][\A len \in LogReadLens :
         log_read(INTR_LOG_MINOR, len) /\ f_pos[INTR_LOG_MINOR] = 0 =>
           /\ log_res'.ret <= len
           /\ 0 <= log_res'.nul /\ log_res'.nul < len]_vars

\* a log_read step at position 0 on the intr log, and what it did: the
\* entries stored at its start, those it took out, those it rendered
ReadStep(len) == log_read(INTR_LOG_MINOR, len) /\ f_pos[INTR_LOG_MINOR] = 0
Stored == Entries(log_buf[INTR_LOG_MINOR])
Removed == LogLen(log_buf[INTR_LOG_MINOR]) - LogLen(log_buf'[INTR_LOG_MINOR])
Rendered == Len(log_res'.text)

\* C36: a log_read loses no entry: it renders every entry it takes out of
\* the kfifo, so after a read that ran out of room every entry not
\* rendered is still in the kfifo.
C36_ReadLosesNoEntry ==
    [][\A len \in LogReadLens :
         ReadStep(len) =>
           /\ Removed = Rendered
           /\ Entries(log_buf'[INTR_LOG_MINOR])
                = SubSeq(Stored, Rendered + 1, Len(Stored))]_vars

\* C36 (amended): a log_read that renders every stored entry takes out
\* exactly these; one that stops early for want of room has taken out one
\* entry more than it rendered, the one it stopped at, and every entry
\* behind that one is still in the kfifo in its order.
C36_ReadLosesEntryAtBreak ==
    [][\A len \in LogReadLens :
         ReadStep(len) =>
           /\ Rendered <= Len(Stored)
           /\ Removed = Rendered + (IF Rendered < Len(Stored) THEN 1 ELSE 0)
           /\ Entries(log_buf'[INTR_LOG_MINOR])
                = SubSeq(Stored, Removed + 1, Len(Stored))
           /\ \A i \in 1..Rendered :
                log_res'.text[i].irq_count = Stored[i].irq_count]_vars

\* a read with room for one line only has found two entries: one is
\* rendered, the kfifo is empty
C36_Witness ==
    /\ log_res.call = "read" /\ log_res.len = LineLen + 1
    /\ Len(log_res.text) = 1 /\ log_res.text[1].irq_count = 0
    /\ irq_count[INTR_LOG_MINOR] = 2
    /\ LogLen(log_buf[INTR_LOG_MINOR]) = 0
    /\ log_buf[INTR_LOG_MINOR].out = 2

\* GIH_IOC_CONFIG_STOP or gih_close has returned and nothing was called since
Stopped == upc = "none" /\ op \in {"stop", "close"} /\ ret >= 0

\* C37: every work item gih_intr has queued is run once and freed once (the
\* invocations that returned are the items queued less those queued or
\* running), none is queued or running once stop or close has returned,
\* and gih_intr never hands a failed allocation to INIT_WORK and
\* queue_work.
C37_WorkItemsRunOnceAndFreed ==
    [][/\ (irq_count[WQ_X_LOG_MINOR] = Returned)'
       /\ (Stopped => Unfinished(CPUS) = 0)'
       /\ \A c \in CPUS :
            gih_intr(c, KmallocAny) /\ irq_wq = "alive" => ~panic']_vars

\* C38: gih_close unlocks gih.dev_open on every path on which it returns,
\* set up or not, whatever keep_missed is and whatever the drain write
\* gave: the gih_open that follows it returns 0.
C38_CloseReleasesGate ==
    [][/\ (CloseReturns \/ CloseIdleReturns => ~dev_open')
       /\ (gih_open /\ op = "close" => ret' = 0 /\ dev_open')]_vars

\* the drain of a gih_close with keep_missed set failed with -EIO and the
\* gate is free
C38_Witness ==
    /\ op = "close" /\ upc = "none" /\ keep_missed /\ ret = 0 - EIO
    /\ sink_failed /\ ~dev_open /\ dest_filp = "NULL"

\* C39: wrt_lock is never left held: while the kernel runs, a held
\* wrt_lock belongs to a gih_do_work that is on its way to mutex_unlock, so
\* a gih_write waiting for the lock, the work queued and a stop or close
\* waiting for that work can all go on.
C39_WriteLockNeverLeftHeld ==
    ~panic =>
      /\ (wrt_lock # "free" => \E c \in CPUS : wpc[c] = "sleep")
      /\ \A c \in CPUS : wpc[c] # "oops"

\* C40: the three counters follow the pipeline in every state: the
\* irq_count of the exit log is at most that of the enter log, which is at
\* most that of the intr log.
C40_CountersInPipelineOrder ==
    /\ irq_count[WQ_X_LOG_MINOR] <= irq_count[WQ_N_LOG_MINOR]
    /\ irq_count[WQ_N_LOG_MINOR] <= irq_count[INTR_LOG_MINOR]

====
